---- MODULE Spec2Model ----
(***************************************************************************)
(* State-machine model of script.js, the to-do list page: the task list    *)
(* (the <li> children of #task-list), the #task-input field, the body's    *)
(* dark-theme class and the two localStorage keys 'tasks' and              *)
(* 'themePreference'.                                                      *)
(*                                                                         *)
(* A string is a sequence of chunks (a chunk is one character, or a fixed  *)
(* run of characters that no operation of the page looks inside).          *)
(* A localStorage entry is <<>> when the key is absent and <<v>> when the  *)
(* key holds v.  The 'tasks' value is a JSON text, kept as its sequence of *)
(* lexical tokens; the 'themePreference' value is a plain string.          *)
(***************************************************************************)
EXTENDS Naturals, Sequences, FiniteSets

VARIABLES taskList, inputValue, dark, tasksStore, themeStore,
          nextId, pc, last, prev, foreign, loaded, tabs, lastTab

vars == <<taskList, inputValue, dark, tasksStore, themeStore,
          nextId, pc, last, prev, foreign, loaded, tabs, lastTab>>

(* ---------------------------- bounds ----------------------------------- *)

\* <li> elements one page session may create
MaxIds == 2

\* <li> elements each of two tabs on the same storage may create
MaxTabIds == 1

(* ------------------------- JavaScript values --------------------------- *)

Undef == [k |-> "undefined"]
Null == [k |-> "null"]
Bool(b) == [k |-> "boolean", b |-> b]
Str(s) == [k |-> "string", s |-> s]
Num(s) == [k |-> "number", s |-> s]
Arr(items) == [k |-> "array", items |-> items]
Obj(members) == [k |-> "object", members |-> members]
\* the click event object the browser hands to a 'click' listener
EventObj == [k |-> "event"]

\* String(v), as the textContent setter and Array.prototype.join apply it
RECURSIVE ToString(_)
RECURSIVE JoinItems(_, _)
ToString(v) ==
    CASE v.k = "string" -> v.s
      [] v.k = "number" -> v.s
      [] v.k = "boolean" -> IF v.b THEN <<"true">> ELSE <<"false">>
      [] v.k = "null" -> <<"null">>
      [] v.k = "undefined" -> <<"undefined">>
      [] v.k = "object" -> <<"[object Object]">>
      [] v.k = "event" -> <<"[object PointerEvent]">>
      [] v.k = "array" -> JoinItems(v.items, 1)

JoinItems(items, i) ==
    IF i > Len(items) THEN <<>>
    ELSE LET e == items[i]
             s == IF e.k \in {"null", "undefined"} THEN <<>> ELSE ToString(e)
         IN IF i = Len(items) THEN s ELSE s \o <<",">> \o JoinItems(items, i + 1)

\* node.textContent = v : null gives the empty string, anything else String(v)
TextContent(v) == IF v.k = "null" THEN <<>> ELSE ToString(v)

\* ToBoolean(v), as `if (isCompleted)` applies it
Truthy(v) ==
    CASE v.k = "boolean" -> v.b
      [] v.k \in {"null", "undefined"} -> FALSE
      [] v.k = "string" -> v.s # <<>>
      [] v.k = "number" -> v.s # <<"0">>
      [] OTHER -> TRUE

\* property read v[key] on a non-null value; an absent property is undefined.
\* JSON.parse keeps the last of several members with the same key.
RECURSIVE Lookup(_, _, _)
Lookup(members, key, i) ==
    IF i = 0 THEN Undef
    ELSE IF members[i][1] = key THEN members[i][2]
    ELSE Lookup(members, key, i - 1)

Get(v, key) ==
    IF v.k = "object" THEN Lookup(v.members, key, Len(v.members)) ELSE Undef

(* ------------------------- String.prototype.trim ----------------------- *)

IsSpace(c) == c = " "

RECURSIVE TrimLeft(_)
TrimLeft(s) ==
    IF s = <<>> THEN <<>>
    ELSE IF IsSpace(Head(s)) THEN TrimLeft(Tail(s)) ELSE s

RECURSIVE TrimRight(_)
TrimRight(s) ==
    IF s = <<>> THEN <<>>
    ELSE IF IsSpace(s[Len(s)]) THEN TrimRight(SubSeq(s, 1, Len(s) - 1)) ELSE s

Trim(s) == TrimRight(TrimLeft(s))

(* ------------------------------- JSON ---------------------------------- *)

Tok(t) == [t |-> t, s |-> <<>>]
StrTok(s) == [t |-> "string", s |-> s]
NumTok(s) == [t |-> "number", s |-> s]

\* JSON.stringify of one {text, completed} object
StringifyTask(task) ==
    << Tok("{"), StrTok(<<"text">>), Tok(":"), StrTok(task.text), Tok(","),
       StrTok(<<"completed">>), Tok(":"),
       Tok(IF task.completed THEN "true" ELSE "false"), Tok("}") >>

RECURSIVE StringifyItems(_, _)
StringifyItems(tasks, i) ==
    IF i > Len(tasks) THEN <<>>
    ELSE IF i = Len(tasks) THEN StringifyTask(tasks[i])
    ELSE StringifyTask(tasks[i]) \o <<Tok(",")>> \o StringifyItems(tasks, i + 1)

\* JSON.stringify of an array of {text, completed} objects
JSONstringify(tasks) == <<Tok("[")>> \o StringifyItems(tasks, 1) \o <<Tok("]")>>

ParseFail == [ok |-> FALSE, val |-> Undef, next |-> 0]
ParseOk(v, n) == [ok |-> TRUE, val |-> v, next |-> n]

RECURSIVE ParseValue(_, _)
RECURSIVE ParseElements(_, _, _)
RECURSIVE ParseMembers(_, _, _)

ParseValue(toks, i) ==
    IF i > Len(toks) THEN ParseFail
    ELSE LET tk == toks[i] IN
      CASE tk.t = "null" -> ParseOk(Null, i + 1)
        [] tk.t = "true" -> ParseOk(Bool(TRUE), i + 1)
        [] tk.t = "false" -> ParseOk(Bool(FALSE), i + 1)
        [] tk.t = "string" -> ParseOk(Str(tk.s), i + 1)
        [] tk.t = "number" -> ParseOk(Num(tk.s), i + 1)
        [] tk.t = "[" ->
             IF i + 1 <= Len(toks) /\ toks[i + 1].t = "]"
             THEN ParseOk(Arr(<<>>), i + 2)
             ELSE ParseElements(toks, i + 1, <<>>)
        [] tk.t = "{" ->
             IF i + 1 <= Len(toks) /\ toks[i + 1].t = "}"
             THEN ParseOk(Obj(<<>>), i + 2)
             ELSE ParseMembers(toks, i + 1, <<>>)
        [] OTHER -> ParseFail

ParseElements(toks, i, acc) ==
    LET r == ParseValue(toks, i) IN
    IF ~r.ok \/ r.next > Len(toks) THEN ParseFail
    ELSE IF toks[r.next].t = ","
         THEN ParseElements(toks, r.next + 1, Append(acc, r.val))
    ELSE IF toks[r.next].t = "]"
         THEN ParseOk(Arr(Append(acc, r.val)), r.next + 1)
    ELSE ParseFail

ParseMembers(toks, i, acc) ==
    IF i + 1 > Len(toks) \/ toks[i].t # "string" \/ toks[i + 1].t # ":"
    THEN ParseFail
    ELSE LET r == ParseValue(toks, i + 2) IN
      IF ~r.ok \/ r.next > Len(toks) THEN ParseFail
      ELSE IF toks[r.next].t = ","
           THEN ParseMembers(toks, r.next + 1, Append(acc, <<toks[i].s, r.val>>))
      ELSE IF toks[r.next].t = "}"
           THEN ParseOk(Obj(Append(acc, <<toks[i].s, r.val>>)), r.next + 1)
      ELSE ParseFail

\* JSON.parse: ok = FALSE stands for the SyntaxError it throws
JSONparse(toks) ==
    LET r == ParseValue(toks, 1) IN
    IF r.ok /\ r.next = Len(toks) + 1
    THEN [ok |-> TRUE, val |-> r.val]
    ELSE [ok |-> FALSE, val |-> Undef]

(* ------------------------------ the page ------------------------------- *)

\* A page state handed through the functions of script.js:
\*   list   the <li> children of #task-list, in document order, each
\*          [id, text (its .task-text textContent), completed (its class)]
\*   input  #task-input.value        store  localStorage 'tasks'
\*   nextId the next fresh <li>      alert  alert() was called
\*   error  an exception left the function
\*   writes the values localStorage.setItem('tasks', ...) was given, in order
Page == [list |-> taskList, input |-> inputValue, store |-> tasksStore,
         nextId |-> nextId, alert |-> FALSE, error |-> FALSE, writes |-> <<>>]

\* the array saveTasks builds from the <li> elements
TasksOf(list) ==
    [i \in 1..Len(list) |-> [text |-> list[i].text, completed |-> list[i].completed]]

\* the stored array overwritten entry by entry, its tail left in place
saveTasks_keepsTail(d) ==
    LET own == TasksOf(d.list)
        p == IF d.store = <<>> THEN [ok |-> FALSE, val |-> Undef]
             ELSE JSONparse(d.store[1])
        old == IF p.ok /\ p.val.k = "array"
               THEN [i \in 1..Len(p.val.items) |->
                       [text |-> ToString(Get(p.val.items[i], <<"text">>)),
                        completed |-> Truthy(Get(p.val.items[i], <<"completed">>))]]
               ELSE <<>>
        merged == IF Len(old) > Len(own)
                  THEN own \o SubSeq(old, Len(own) + 1, Len(old)) ELSE own
    IN [d EXCEPT !.store = <<JSONstringify(merged)>>,
                 !.writes = Append(@, JSONstringify(merged))]

saveTasks(d) ==
    [d EXCEPT !.store = <<JSONstringify(TasksOf(d.list))>>,
              !.writes = Append(@, JSONstringify(TasksOf(d.list)))]

\* addTask forgetting the completed class of a reloaded task
addTask_dropCompleted(d, taskTextArg, isCompletedArg) ==
    LET taskText == IF taskTextArg.k = "undefined"
                    THEN Str(Trim(d.input)) ELSE taskTextArg
    IN IF taskText.k = "string" /\ taskText.s = <<>>
       THEN [d EXCEPT !.alert = TRUE]
       ELSE LET li == [id |-> d.nextId, text |-> TextContent(taskText),
                       completed |-> FALSE]
                d1 == [d EXCEPT !.list = Append(d.list, li), !.nextId = @ + 1]
                d2 == IF Trim(d1.input) # <<>>
                      THEN [d1 EXCEPT !.input = <<>>] ELSE d1
            IN saveTasks(d2)

addTask(d, taskTextArg, isCompletedArg) ==
    LET taskText == IF taskTextArg.k = "undefined"
                    THEN Str(Trim(d.input)) ELSE taskTextArg
        isCompleted == IF isCompletedArg.k = "undefined"
                       THEN Bool(FALSE) ELSE isCompletedArg
    IN IF taskText.k = "string" /\ taskText.s = <<>>
       THEN [d EXCEPT !.alert = TRUE]
       ELSE LET li == [id |-> d.nextId, text |-> TextContent(taskText),
                       completed |-> Truthy(isCompleted)]
                d1 == [d EXCEPT !.list = Append(d.list, li), !.nextId = @ + 1]
                d2 == IF ~Truthy(isCompleted) /\ Trim(d1.input) # <<>>
                      THEN [d1 EXCEPT !.input = <<>>] ELSE d1
            IN saveTasks(d2)

\* positions of the <li> with the given id (at most one)
IndexOf(list, id) == {i \in 1..Len(list) : list[i].id = id}

\* removal by text instead of by element
RemoveLi_byText(list, id) ==
    SelectSeq(list, LAMBDA li : \A i \in IndexOf(list, id) : li.text # list[i].text)

\* listItem.remove()
RemoveLi(list, id) == SelectSeq(list, LAMBDA li : li.id # id)

\* classList.add in place of classList.toggle
ToggleLi_add(list, id) ==
    [i \in 1..Len(list) |->
        IF list[i].id = id THEN [list[i] EXCEPT !.completed = TRUE] ELSE list[i]]

\* listItem.classList.toggle('completed')
ToggleLi(list, id) ==
    [i \in 1..Len(list) |->
        IF list[i].id = id THEN [list[i] EXCEPT !.completed = ~@] ELSE list[i]]

\* the toggle path saving before it toggles
handleTaskActions_staleSave(d, target) ==
    IF target.part = "ul" THEN d
    ELSE IF target.part = "button"
         THEN saveTasks([d EXCEPT !.list = RemoveLi(d.list, target.id)])
    ELSE [saveTasks(d) EXCEPT !.list = ToggleLi(d.list, target.id)]

\* only a click on the text toggles; a click on the row itself deletes
handleTaskActions_rowDeletes(d, target) ==
    IF target.part = "ul" THEN d
    ELSE IF target.part # "span"
         THEN saveTasks([d EXCEPT !.list = RemoveLi(d.list, target.id)])
    ELSE saveTasks([d EXCEPT !.list = ToggleLi(d.list, target.id)])

\* A click target inside #task-list: part "ul" is the list itself, outside
\* every row (closest('li') is null); "li", "span" and "button" are a row,
\* its .task-text and its .delete-button.
handleTaskActions(d, target) ==
    IF target.part = "ul" THEN d
    ELSE IF target.part = "button"
         THEN saveTasks([d EXCEPT !.list = RemoveLi(d.list, target.id)])
    ELSE saveTasks([d EXCEPT !.list = ToggleLi(d.list, target.id)])

\* the stored entries taken last to first
RECURSIVE ForEachTask_reverse(_, _, _)
ForEachTask_reverse(d, items, i) ==
    IF i > Len(items) THEN d
    ELSE IF items[Len(items) + 1 - i].k = "null" THEN [d EXCEPT !.error = TRUE]
    ELSE ForEachTask_reverse(addTask(d, Get(items[Len(items) + 1 - i], <<"text">>),
                                        Get(items[Len(items) + 1 - i], <<"completed">>)),
                             items, i + 1)

\* tasks.forEach(task => addTask(task.text, task.completed)); reading a
\* property of null throws a TypeError and ends the loop
RECURSIVE ForEachTask(_, _, _)
ForEachTask(d, items, i) ==
    IF i > Len(items) THEN d
    ELSE IF items[i].k = "null" THEN [d EXCEPT !.error = TRUE]
    ELSE ForEachTask(addTask(d, Get(items[i], <<"text">>),
                                Get(items[i], <<"completed">>)), items, i + 1)

loadTasks(d) ==
    IF d.store = <<>> \/ d.store = << <<>> >> THEN d
    ELSE LET p == JSONparse(d.store[1]) IN
         IF ~p.ok THEN [d EXCEPT !.error = TRUE]
         ELSE IF p.val.k # "array" THEN [d EXCEPT !.error = TRUE]
         ELSE ForEachTask(d, p.val.items, 1)

\* the body's dark-theme class after toggleTheme
toggleTheme(isDark) == ~isDark

\* the preference taken from the class the body had before the toggle
currentTheme_stale(isDark) == IF isDark THEN "light" ELSE "dark"

\* the value toggleTheme stores for the class it finds on the body
currentTheme(isDark) == IF isDark THEN "dark" ELSE "light"

\* any stored preference read as dark
loadTheme_anyIsDark(savedTheme, isDark) ==
    IF savedTheme # <<>> /\ savedTheme[1] # ""
    THEN TRUE
    ELSE isDark

\* the body's dark-theme class after loadTheme
loadTheme(savedTheme, isDark) ==
    IF savedTheme # <<>> /\ savedTheme[1] # ""
    THEN savedTheme[1] = "dark"
    ELSE isDark

(* ------------------------- inputs and storage -------------------------- *)

InputTexts == { <<>>, <<" ">>, <<" ", "a", " ">> }

ThemeValues == { "dark", "light", "blue", "" }

T(text, c) == [text |-> text, completed |-> c]

\* 'tasks' values the page itself writes
WrittenPayloads ==
    { JSONstringify(<<>>),
      JSONstringify(<<T(<<"a">>, TRUE)>>),
      JSONstringify(<<T(<<"a">>, TRUE), T(<<"a">>, FALSE)>>) }

\* 'tasks' values the page never writes
ForeignPayloads ==
    { <<>>,
      <<Tok("[")>>,
      <<Tok("null")>>,
      <<Tok("{"), Tok("}")>>,
      <<Tok("["), Tok("null"), Tok("]")>>,
      <<Tok("["), NumTok(<<"1">>), Tok("]")>>,
      JSONstringify(<<T(<<>>, TRUE)>>),
      <<Tok("["), Tok("{"), StrTok(<<"completed">>), Tok(":"), Tok("true"),
        Tok("}"), Tok("]")>>,
      <<Tok("["), Tok("{"), StrTok(<<"text">>), Tok(":"), Tok("null"),
        Tok("}"), Tok("]")>>,
      <<Tok("[")>> \o StringifyTask(T(<<"a">>, FALSE)) \o
        <<Tok(","), Tok("null"), Tok("]")>> }

(* ------------------------------ actions -------------------------------- *)

\* The collection and display mode the previous session ended with, kept from
\* Restart until the first interaction after the reload.
NoPrev == [has |-> FALSE, list |-> <<>>, dark |-> FALSE]

\* What the last step did, for the properties below: the handler, the row and
\* part clicked, a toggled row's completed class before the click, whether this and
\* the step before both toggled the same row, whether the handler called
\* alert() or let an exception escape, and the values it wrote to 'tasks'.
Did(op, id, part, was, r) ==
    [op |-> op, id |-> id, part |-> part, was |-> was, twice |-> FALSE,
     alert |-> r.alert, error |-> r.error, writes |-> r.writes]

IsToggle(l) == l.op = "click" /\ l.part \in {"li", "span"}

IsDelete(l) == l.op = "click" /\ l.part = "button"

IsAdd(l) == l.op \in {"addClick", "addEnter"}

Apply(r) ==
    /\ taskList' = r.list
    /\ inputValue' = r.input
    /\ tasksStore' = r.store
    /\ nextId' = r.nextId

\* Two tabs of the page on one localStorage.  A tab is its <li> list, its
\* input field, its next fresh <li>, whether its DOMContentLoaded listener has
\* run, and whether the other tab has changed 'tasks' since this tab's startup
\* or last write.
NoTabs ==
    [t \in {1, 2} |-> [list |-> <<>>, input |-> <<>>, nextId |-> 1,
                       pc |-> "loading", stale |-> FALSE]]

\* what the last step of a tab did: the tab, whether its handler wrote 'tasks',
\* and whether the tab was stale when it wrote
NoWrite == [tab |-> 0, wrote |-> FALSE, stale |-> FALSE]

Init ==
    /\ taskList = <<>>
    /\ inputValue \in InputTexts
    /\ dark = FALSE
    /\ tasksStore \in {<<>>} \cup {<<p>> : p \in WrittenPayloads \cup ForeignPayloads}
    /\ themeStore \in {<<>>} \cup {<<v>> : v \in ThemeValues}
    /\ nextId = 1
    /\ pc = "loading"
    /\ last = Did("none", 0, "none", FALSE, Page)
    /\ prev = NoPrev
    /\ foreign = (tasksStore \in {<<p>> : p \in ForeignPayloads})
    /\ loaded = {}
    /\ tabs = NoTabs
    /\ lastTab = NoWrite

\* The storage keys whose reload has run to its end in this session: none
\* before the DOMContentLoaded listener, both after it, none when loadTasks
\* threw (its loop was cut short and loadTheme was never called).
BothKeys == {"tasks", "themePreference"}

\* the DOMContentLoaded listener: loadTasks(); loadTheme();
DOMContentLoaded ==
    /\ pc = "loading"
    /\ LET r == loadTasks(Page) IN
        /\ Apply(r)
        /\ dark' = IF r.error THEN dark ELSE loadTheme(themeStore, dark)
        /\ last' = Did("DOMContentLoaded", 0, "none", FALSE, r)
        /\ loaded' = IF r.error THEN {} ELSE BothKeys
    /\ pc' = "ready"
    /\ UNCHANGED <<themeStore, prev, foreign, tabs, lastTab>>

\* the user edits the input field
TypeInput ==
    /\ pc = "ready"
    /\ \E v \in InputTexts :
        /\ v # inputValue
        /\ inputValue' = v
    /\ last' = Did("type", 0, "none", FALSE, Page)
    /\ prev' = NoPrev
    /\ UNCHANGED <<taskList, dark, tasksStore, themeStore, nextId, pc, foreign, loaded, tabs, lastTab>>

\* addButton 'click' listener: addTask is the listener, so the browser calls
\* it with the event object as its first argument
AddClick ==
    /\ pc = "ready"
    /\ LET r == addTask(Page, EventObj, Undef) IN
        /\ r.nextId <= MaxIds + 1
        /\ Apply(r)
        /\ last' = Did("addClick", 0, "none", FALSE, r)
    /\ prev' = NoPrev
    /\ UNCHANGED <<dark, themeStore, pc, foreign, loaded, tabs, lastTab>>

\* taskInput 'keypress' listener with e.key === 'Enter'
KeypressEnter ==
    /\ pc = "ready"
    /\ LET r == addTask(Page, Undef, Undef) IN
        /\ r.nextId <= MaxIds + 1
        /\ Apply(r)
        /\ last' = Did("addEnter", 0, "none", FALSE, r)
    /\ prev' = NoPrev
    /\ UNCHANGED <<dark, themeStore, pc, foreign, loaded, tabs, lastTab>>

\* taskList 'click' listener; the target is the list or part of a row in it
ClickTargets ==
    {[id |-> 0, part |-> "ul"]} \cup
    {[id |-> taskList[i].id, part |-> p] :
        i \in 1..Len(taskList), p \in {"li", "span", "button"}}

ListClick ==
    /\ pc = "ready"
    /\ \E target \in ClickTargets :
        LET r == handleTaskActions(Page, target)
            was == /\ target.part \in {"li", "span"}
                   /\ \E i \in IndexOf(taskList, target.id) : taskList[i].completed
        IN /\ Apply(r)
           /\ last' = [Did("click", target.id, target.part, was, r)
                          EXCEPT !.twice = /\ IsToggle(last)
                                           /\ target.part \in {"li", "span"}
                                           /\ target.id = last.id]
    /\ prev' = NoPrev
    /\ UNCHANGED <<dark, themeStore, pc, foreign, loaded, tabs, lastTab>>

\* the theme listener wiping the storage before it stores the preference
ThemeClick_clearsStorage ==
    /\ pc = "ready"
    /\ dark' = toggleTheme(dark)
    /\ themeStore' = <<currentTheme(dark')>>
    /\ tasksStore' = <<>>
    /\ last' = Did("toggleTheme", 0, "none", FALSE, Page)
    /\ prev' = NoPrev
    /\ UNCHANGED <<taskList, inputValue, nextId, pc, foreign, loaded, tabs, lastTab>>

\* themeToggleButton 'click' listener
ThemeClick ==
    /\ pc = "ready"
    /\ dark' = toggleTheme(dark)
    /\ themeStore' = <<currentTheme(dark')>>
    /\ last' = Did("toggleTheme", 0, "none", FALSE, Page)
    /\ prev' = NoPrev
    /\ UNCHANGED <<taskList, inputValue, tasksStore, nextId, pc, foreign, loaded, tabs, lastTab>>

\* the page is closed and opened again: a new document, the same storage;
\* the browser may restore the input field's text
Restart ==
    /\ pc = "ready"
    /\ prev' = [has |-> TRUE, list |-> TasksOf(taskList), dark |-> dark]
    /\ taskList' = <<>>
    /\ inputValue' \in InputTexts
    /\ dark' = FALSE
    /\ nextId' = 1
    /\ pc' = "loading"
    /\ last' = Did("restart", 0, "none", FALSE, Page)
    /\ loaded' = {}
    /\ UNCHANGED <<tasksStore, themeStore, foreign, tabs, lastTab>>

(* ------------------------------ two tabs ------------------------------- *)

\* the page of tab t
TabPage(t) ==
    [list |-> tabs[t].list, input |-> tabs[t].input, store |-> tasksStore,
     nextId |-> tabs[t].nextId, alert |-> FALSE, error |-> FALSE, writes |-> <<>>]

\* tab t after a handler that left page r; a write that changes 'tasks' makes
\* the other tab stale once that tab has started
TabApply(t, r) ==
    /\ tasksStore' = r.store
    /\ tabs' = [u \in {1, 2} |->
                 IF u = t
                 THEN [list |-> r.list, input |-> r.input, nextId |-> r.nextId,
                       pc |-> "ready",
                       stale |-> tabs[t].stale /\ r.writes = <<>> /\ tabs[t].pc = "ready"]
                 ELSE [tabs[u] EXCEPT !.stale = @ \/ (r.store # tasksStore /\ tabs[u].pc = "ready")]]
    /\ lastTab' = [tab |-> t, wrote |-> r.writes # <<>>,
                   stale |-> r.writes # <<>> /\ tabs[t].stale /\ tabs[t].pc = "ready"]

FrozenPage ==
    UNCHANGED <<taskList, inputValue, dark, themeStore, nextId, pc, last,
                prev, foreign, loaded>>

\* 'tasks' values the tabs may find when the first of them opens
TabPayloads == { JSONstringify(<<T(<<"a">>, TRUE)>>) }

TabsInit ==
    /\ taskList = <<>>
    /\ inputValue = <<>>
    /\ dark = FALSE
    /\ tasksStore \in {<<>>} \cup {<<p>> : p \in TabPayloads}
    /\ themeStore = <<>>
    /\ nextId = 1
    /\ pc = "loading"
    /\ last = Did("none", 0, "none", FALSE, Page)
    /\ prev = NoPrev
    /\ foreign = FALSE
    /\ loaded = {}
    /\ tabs = NoTabs
    /\ lastTab = NoWrite

\* the DOMContentLoaded listener of tab t (its loadTasks)
TabLoad ==
    \E t \in {1, 2} :
        /\ tabs[t].pc = "loading"
        /\ LET r == loadTasks(TabPage(t)) IN
             /\ r.nextId <= MaxTabIds + 1
             /\ TabApply(t, r)
        /\ FrozenPage

\* the user edits the input field of tab t
TabInputs == { <<>>, <<" ", "a", " ">> }

TabType ==
    \E t \in {1, 2}, v \in TabInputs :
        /\ tabs[t].pc = "ready"
        /\ v # tabs[t].input
        /\ tabs' = [tabs EXCEPT ![t].input = v]
        /\ lastTab' = [tab |-> t, wrote |-> FALSE, stale |-> FALSE]
        /\ UNCHANGED tasksStore
        /\ FrozenPage

\* the taskInput 'keypress' listener of tab t with e.key === 'Enter'
TabKeypressEnter ==
    \E t \in {1, 2} :
        /\ tabs[t].pc = "ready"
        /\ LET r == addTask(TabPage(t), Undef, Undef) IN
             /\ r.nextId <= MaxTabIds + 1
             /\ TabApply(t, r)
        /\ FrozenPage

\* the addButton 'click' listener of tab t
TabAddClick ==
    \E t \in {1, 2} :
        /\ tabs[t].pc = "ready"
        /\ LET r == addTask(TabPage(t), EventObj, Undef) IN
             /\ r.nextId <= MaxTabIds + 1
             /\ TabApply(t, r)
        /\ FrozenPage

\* the taskList 'click' listener of tab t
TabListClick ==
    \E t \in {1, 2} :
        /\ tabs[t].pc = "ready"
        /\ \E i \in 1..Len(tabs[t].list), part \in {"span", "button"} :
             TabApply(t, handleTaskActions(TabPage(t),
                                           [id |-> tabs[t].list[i].id, part |-> part]))
        /\ FrozenPage

TabsNext ==
    \/ TabLoad
    \/ TabType
    \/ TabAddClick
    \/ TabKeypressEnter
    \/ TabListClick

TabsSpec == TabsInit /\ [][TabsNext]_vars

\* One listener runs to completion per step.  The user's events are taken
\* after the DOMContentLoaded listener has run (pc = "ready"); a listener that
\* threw leaves the page running, so the later events are still served.
Next ==
    \/ DOMContentLoaded
    \/ TypeInput
    \/ AddClick
    \/ KeypressEnter
    \/ ListClick
    \/ ThemeClick
    \/ Restart

Spec == Init /\ [][Next]_vars

TypeOK ==
    /\ pc \in {"loading", "ready"}
    /\ dark \in BOOLEAN
    /\ nextId \in 1..(MaxIds + 1)
    /\ Len(taskList) < nextId

(* ----------------------------- properties ------------------------------ *)

Ids(list) == {list[i].id : i \in 1..Len(list)}

\* the completed class of the row with the given id
CompletedOf(list, id) == \E i \in 1..Len(list) : list[i].id = id /\ list[i].completed

\* C1: an add attempt on an empty or whitespace-only input, by the add
\* button or by Enter, shows the warning and leaves the task list, the stored
\* 'tasks' value and the input field as they were.
C1_EmptyAddRejected ==
    [][ (IsAdd(last') /\ Trim(inputValue) = <<>>)
        => /\ last'.alert
           /\ taskList' = taskList
           /\ tasksStore' = tasksStore
           /\ inputValue' = inputValue ]_vars

\* C2: an add on an input that is non-empty after trimming, by the add button
\* or by Enter, appends exactly one entry, not completed, whose text is the
\* trimmed input, and keeps every earlier entry.
C2_AddAppendsTrimmedInput ==
    [][ (IsAdd(last') /\ Trim(inputValue) # <<>>)
        => /\ Len(taskList') = Len(taskList) + 1
           /\ taskList'[Len(taskList')].completed = FALSE
           /\ taskList'[Len(taskList')].text = Trim(inputValue)
           /\ SubSeq(taskList', 1, Len(taskList)) = taskList ]_vars

\* C3: when the stored tasks were written by the page (or the key was absent
\* on the first run), the startup reload of a new session rebuilds exactly the
\* {text, completed} sequence the previous session ended with, in order, and
\* throws nothing.
C3_RoundTrip ==
    (last.op = "DOMContentLoaded" /\ prev.has /\ ~foreign)
        => (TasksOf(taskList) = prev.list /\ ~last.error)

C3_Witness ==
    /\ last.op = "DOMContentLoaded" /\ prev.has /\ ~foreign
    /\ TasksOf(taskList) = <<T(<<"[object PointerEvent]">>, TRUE), T(<<"a">>, FALSE)>>

\* C4: after a successful add, a toggle or a delete, the stored 'tasks' value
\* parses to an array with one {text, completed} object per visible row, in
\* visible order, carrying the row's current text and completed flag.
C4_StoreAgreesWithList ==
    ((IsAdd(last) /\ ~last.alert) \/ IsToggle(last) \/ IsDelete(last))
        => /\ tasksStore # <<>>
           /\ LET p == JSONparse(tasksStore[1]) IN
                /\ p.ok
                /\ p.val.k = "array"
                /\ Len(p.val.items) = Len(taskList)
                /\ \A i \in 1..Len(taskList) :
                     /\ Get(p.val.items[i], <<"text">>) = Str(taskList[i].text)
                     /\ Get(p.val.items[i], <<"completed">>) = Bool(taskList[i].completed)

C4_Witness ==
    /\ IsToggle(last)
    /\ Len(taskList) = 2
    /\ taskList[1].completed /\ ~taskList[2].completed

\* C5: a click on a row's delete button removes that row and flips no flag;
\* a click on the row or its text flips that row's flag and removes nothing;
\* a click on the list outside every row changes neither list nor store.
C5_ClickRouting ==
    [][ (last'.op = "click")
        => /\ last'.part = "button" =>
                /\ Ids(taskList') = Ids(taskList) \ {last'.id}
                /\ \A id \in Ids(taskList') :
                     CompletedOf(taskList', id) = CompletedOf(taskList, id)
           /\ last'.part \in {"li", "span"} =>
                /\ Ids(taskList') = Ids(taskList)
                /\ Len(taskList') = Len(taskList)
                /\ CompletedOf(taskList', last'.id) = ~CompletedOf(taskList, last'.id)
           /\ last'.part = "ul" =>
                /\ taskList' = taskList
                /\ tasksStore' = tasksStore ]_vars

C5_Witness ==
    /\ last.op = "click" /\ last.part = "li" /\ last.id = 1
    /\ Len(taskList) = 2
    /\ CompletedOf(taskList, 1)

\* C6: a toggle keeps the length, the order, every text and every other row's
\* flag (rows with the same text included), and a second toggle of the same
\* row right after the first restores the flag the row had before the first.
C6_ToggleInvolution ==
    [][ IsToggle(last')
        => /\ Len(taskList') = Len(taskList)
           /\ \A i \in 1..Len(taskList) :
                /\ taskList'[i].id = taskList[i].id
                /\ taskList'[i].text = taskList[i].text
                /\ taskList[i].id # last'.id =>
                     taskList'[i].completed = taskList[i].completed
           /\ last'.twice => CompletedOf(taskList', last'.id) = last.was ]_vars

C6_Witness ==
    /\ last.twice
    /\ Len(taskList) = 2
    /\ taskList[1].text = taskList[2].text
    /\ taskList[1].completed # taskList[2].completed

\* C7: a delete removes the clicked row and nothing else: the other rows keep
\* text, flag and order (rows with the same text included), the length drops
\* by one, and within the session a removed row is never in the list again,
\* so no later click can reach it.
C7_DeleteExactlyOne ==
    [][ /\ IsDelete(last') =>
             /\ Len(taskList') = Len(taskList) - 1
             /\ last'.id \notin Ids(taskList')
             /\ taskList' = SelectSeq(taskList, LAMBDA li : li.id # last'.id)
        /\ last'.op = "click" /\ last'.part # "ul" => last'.id \in Ids(taskList)
        /\ \A id \in 1..MaxIds :
             (id < nextId /\ id \notin Ids(taskList) /\ last'.op # "restart")
                => id \notin Ids(taskList') ]_vars

C7_Witness ==
    /\ IsDelete(last) /\ last.id = 1
    /\ Len(taskList) = 1
    /\ taskList[1].id = 2
    /\ taskList[1].text = <<"a">>
    /\ tasksStore = <<JSONstringify(<<T(<<"a">>, FALSE)>>)>>

\* C8: the display mode a session shows after its startup is the display
\* mode the previous session ended with.
C8_ThemeRoundTrip ==
    (last.op = "DOMContentLoaded" /\ prev.has) => dark = prev.dark

\* C9: once the theme reload has run, the display is dark exactly when the
\* stored 'themePreference' is "dark"; absent or any other string gives light.
C9_DarkIffStoredDark ==
    (last.op = "DOMContentLoaded" /\ ~last.error)
        => (dark <=> themeStore = <<"dark">>)

C9_Witness ==
    /\ last.op = "DOMContentLoaded" /\ ~last.error
    /\ themeStore = <<"dark">>
    /\ dark

\* a JSON value of the shape { text: string, completed: boolean }
IsTaskRecord(v) ==
    /\ v.k = "object"
    /\ Get(v, <<"text">>).k = "string"
    /\ Get(v, <<"completed">>).k = "boolean"

\* a 'tasks' entry that is absent, unparseable, or not a list of task records
Malformed(store) ==
    \/ store = <<>>
    \/ LET p == JSONparse(store[1]) IN
         \/ ~p.ok
         \/ p.val.k # "array"
         \/ \E i \in 1..Len(p.val.items) : ~IsTaskRecord(p.val.items[i])

\* C10: a startup that finds the 'tasks' entry absent or malformed throws
\* nothing and leaves the task list empty.
C10_MalformedGivesEmpty ==
    [][ (last'.op = "DOMContentLoaded" /\ Malformed(tasksStore))
        => (~last'.error /\ taskList' = <<>>) ]_vars

\* C11: every startup applies the stored theme, whatever the 'tasks' entry
\* holds: after the DOMContentLoaded listener the display is dark exactly when
\* the stored 'themePreference' is "dark".
C11_ThemeReadBackOnEveryStart ==
    (last.op = "DOMContentLoaded") => (dark <=> themeStore = <<"dark">>)

\* the {text, completed} records of a parseable 'tasks' array, text "?" for a
\* text that is not a string
StoredTexts(store) ==
    IF store = <<>> THEN <<>>
    ELSE LET p == JSONparse(store[1]) IN
         IF ~p.ok \/ p.val.k # "array" THEN <<>>
         ELSE [i \in 1..Len(p.val.items) |->
                 LET t == Get(p.val.items[i], <<"text">>) IN
                 IF t.k = "string" THEN t.s ELSE <<"?">>]

\* C12: no row of the list has the empty string as its text, and no value the
\* page writes to 'tasks' holds a record whose text is the empty string.
C12_TextNeverEmpty ==
    [][ /\ \A i \in 1..Len(taskList') : taskList'[i].text # <<>>
        /\ tasksStore' # tasksStore =>
             \A i \in 1..Len(StoredTexts(tasksStore')) :
                 StoredTexts(tasksStore')[i] # <<>> ]_vars

\* C13: a startup reload of a stored list of task records leaves the input
\* field as it found it.
C13_ReloadKeepsInput ==
    [][ (last'.op = "DOMContentLoaded" /\ ~Malformed(tasksStore))
        => inputValue' = inputValue ]_vars

\* C14: a user's handler (add, list click, theme switch) runs only in a
\* session whose startup has read back both storage keys.
C14_HandlersAfterReadBack ==
    (IsAdd(last) \/ last.op \in {"click", "toggleTheme"}) => loaded = BothKeys

\* C15: a theme toggle flips the display mode and stores "dark" or "light",
\* the name of the mode now shown.
C15_ToggleStoresShownMode ==
    [][ (last'.op = "toggleTheme")
        => /\ dark' = ~dark
           /\ themeStore' = <<IF dark' THEN "dark" ELSE "light">> ]_vars

C15_Witness ==
    /\ last.op = "toggleTheme"
    /\ ~dark
    /\ themeStore = <<"light">>

\* C16: after a live add that appended a task the input field is empty.
C16_InputEmptyAfterAdd ==
    (IsAdd(last) /\ ~last.alert) => inputValue = <<>>

\* the {text, completed} values of a parseable JSON array
RecordsOf(toks) ==
    LET p == JSONparse(toks) IN
    [i \in 1..Len(p.val.items) |->
        [text |-> Get(p.val.items[i], <<"text">>),
         completed |-> Get(p.val.items[i], <<"completed">>)]]

\* a 'tasks' entry holding a list of records with non-empty string text and
\* boolean completed
WellFormedTasks(store) ==
    /\ ~Malformed(store)
    /\ \A i \in 1..Len(RecordsOf(store[1])) : RecordsOf(store[1])[i].text.s # <<>>

IsPrefix(a, b) == Len(a) <= Len(b) /\ SubSeq(b, 1, Len(a)) = a

\* C18: a startup reload of a list of records with non-empty text and boolean
\* completed writes 'tasks' once per entry, each write holds a prefix of the
\* stored sequence, and the key ends with the sequence it started with.
C18_ReloadKeepsStore ==
    [][ (last'.op = "DOMContentLoaded" /\ WellFormedTasks(tasksStore))
        => /\ tasksStore' # <<>>
           /\ RecordsOf(tasksStore'[1]) = RecordsOf(tasksStore[1])
           /\ Len(last'.writes) = Len(RecordsOf(tasksStore[1]))
           /\ \A j \in 1..Len(last'.writes) :
                /\ Len(RecordsOf(last'.writes[j])) = j
                /\ IsPrefix(RecordsOf(last'.writes[j]), RecordsOf(tasksStore[1])) ]_vars

C18_Witness ==
    /\ last.op = "DOMContentLoaded"
    /\ Len(last.writes) = 2
    /\ Len(RecordsOf(last.writes[1])) = 1
    /\ tasksStore = <<last.writes[2]>>
    /\ TasksOf(taskList) = <<T(<<"a">>, FALSE), T(<<"[object PointerEvent]">>, TRUE)>>

\* C19: an add, a toggle and a delete leave the display mode and the stored
\* 'themePreference' as they were; a theme toggle leaves the task list and the
\* stored 'tasks' as they were; at startup nothing writes 'themePreference',
\* the task reload alone (no stored preference) leaves the display mode, and
\* the theme reload alone (no stored tasks) leaves the list and 'tasks'.
C19_TasksAndThemeIndependent ==
    [][ /\ (IsAdd(last') \/ last'.op = "click") =>
             (dark' = dark /\ themeStore' = themeStore)
        /\ last'.op = "toggleTheme" =>
             (taskList' = taskList /\ tasksStore' = tasksStore)
        /\ last'.op = "DOMContentLoaded" =>
             /\ themeStore' = themeStore
             /\ themeStore = <<>> => dark' = dark
             /\ tasksStore = <<>> => (taskList' = taskList /\ tasksStore' = tasksStore) ]_vars

C19_Witness ==
    /\ last.op = "toggleTheme"
    /\ dark
    /\ Len(taskList) = 2
    /\ taskList[2].completed
    /\ tasksStore = <<JSONstringify(TasksOf(taskList))>>

\* C17: with two tabs on one storage, a handler of a tab that writes 'tasks'
\* leaves the key holding that tab's own collection and nothing else, also
\* when the other tab has written since this tab's startup.
C17_LastWriterWins ==
    lastTab.wrote =>
        tasksStore = <<JSONstringify(TasksOf(tabs[lastTab.tab].list))>>

C17_Witness ==
    /\ lastTab.wrote /\ lastTab.stale /\ lastTab.tab = 2
    /\ TasksOf(tabs[1].list) = <<T(<<"a">>, FALSE)>>
    /\ TasksOf(tabs[2].list) = <<T(<<"[object PointerEvent]">>, FALSE)>>
    /\ tasksStore = <<JSONstringify(TasksOf(tabs[2].list))>>

====
